---- MODULE Spec2Model ----
(***************************************************************************)
(* Finite obstruction-graph verifiers for the odd Collatz map.             *)
(*                                                                         *)
(*   prog = "A16"   : src/verify_A16.py (witness search, all residues)      *)
(*   prog = "det"   : src/verifier/deterministic_verifier_m16_J16_K4.py     *)
(*   prog = "tower" : src/verifier/u_cycle_verifier_m16.py (tower graph     *)
(*                    builder and survivor pruning)                         *)
(*   prog = "gate"  : verify_gate_cycle_m16.py (src/unnamed/part_000),      *)
(*                    Floyd cycle detection from every gate state           *)
(*                                                                         *)
(* The programs run at (m0, J, K) = (16, 16, 4) and S0 + ALPHA = 20; the    *)
(* model runs the same code at smaller exponents, drawn in Init.            *)
(***************************************************************************)
EXTENDS Integers, Sequences, FiniteSets, TLC

VARIABLES
    prog, pc, verdict, exitStatus, v2args,
    \* witness search (verify_A16.py, deterministic_verifier_m16_J16_K4.py)
    m0, J, K, r, ell, j, x, b, w, best, candidate,
    survivors, checked, witnesses_found, max_best_j, hardest,
    \* tower graph (u_cycle_verifier_m16.py)
    S0, T, q, vertices, V, out_adj, rev_adj, i, alive, outdeg, qd, removed,
    pops, enq,   \* observation counters: popleft calls, appends per vertex
    \* gate cycle detector (verify_gate_cycle_m16.py)
    gm, gF, gGate, gTodo, g0, tortoise, hare, cyc

commonVars == <<prog, pc, verdict, exitStatus, v2args>>
wsVars == <<m0, J, K, r, ell, j, x, b, w, best, candidate,
            survivors, checked, witnesses_found, max_best_j, hardest>>
twVars == <<S0, T, q, vertices, V, out_adj, rev_adj, i, alive, outdeg, qd, removed,
            pops, enq>>
gtVars == <<gm, gF, gGate, gTodo, g0, tortoise, hare, cyc>>
vars == <<commonVars, wsVars, twVars, gtVars>>

(***************************************************************************)
(* Bounds of the model.                                                    *)
(***************************************************************************)
MaxM == 4          \* m0 ranges over 1..MaxM
MaxJ == 4          \* J ranges over 0..MaxJ
MaxK == 4          \* K ranges over 1..MaxK
MaxS0 == 2         \* S0 ranges over 1..MaxS0, so KQ = S0 + ALPHA is 5..6
MaxV == 4          \* synthetic functional graphs have 1..MaxV vertices
MaxGm == 3         \* gate detector window exponent m ranges over 1..MaxGm
MaxSynth == 3      \* synthetic successor functions have 2..MaxSynth states

(***************************************************************************)
(* Program constants.                                                      *)
(***************************************************************************)
NumLifts == 16     \* range(16) / LIFTS
ALPHA == 4
ExitEmpty == 0     \* verify_A16.main: return 0
ExitNonEmpty == 2  \* verify_A16.main: return 2
ExitNormal == 0    \* a script whose main() returns None ends with status 0
NotExited == -1

None == <<>>

(***************************************************************************)
(* Integer helpers: Python's >>, <<, & with a mask, int.bit_length.        *)
(***************************************************************************)
Shl(a, n) == a * 2^n
Shr(a, n) == a \div 2^n

RECURSIVE bit_length(_)
bit_length(n) == IF n = 0 THEN 0 ELSE 1 + bit_length(n \div 2)

\* n & -n for n >= 0: the lowest set bit of n, and 0 for n = 0.
RECURSIVE LowestSetBit(_)
LowestSetBit(n) ==
    IF n = 0 THEN 0
    ELSE IF n % 2 = 1 THEN 1
    ELSE 2 * LowestSetBit(n \div 2)

v2(n) == bit_length(LowestSetBit(n)) - 1

\* a single halving instead of the shift by b
odd_collatz_step_OneShift(xx) ==
    LET t == 3 * xx + 1
        bb == v2(t)
    IN  <<Shr(t, 1), bb>>

odd_collatz_step(xx) ==
    LET t == 3 * xx + 1
        bb == v2(t)
    IN  <<Shr(t, bb), bb>>

(***************************************************************************)
(* Mathematical reference definitions (spec.md glossary).                  *)
(***************************************************************************)
\* largest k such that 2^k divides n, for n > 0
Val2(n) == CHOOSE k \in 0..n : n % (2^k) = 0 /\ n % (2^(k + 1)) # 0

\* U(x) = (3x+1) / 2^{v2(3x+1)}
U(xx) == (3 * xx + 1) \div (2^Val2(3 * xx + 1))

RECURSIVE Uiter(_, _)
Uiter(xx, n) == IF n = 0 THEN xx ELSE Uiter(U(xx), n - 1)

\* the valuation observed at step jj from lift ll of residue rr
SpikeAt(rr, ll, jj) == Val2(3 * Uiter(rr + ll * 2^m0, jj) + 1)

ValidPairs(rr) ==
    {p \in (0..(NumLifts - 1)) \X (0..(J - 1)) : SpikeAt(rr, p[1], p[2]) >= K}

LexLeq(p, p2) == p[1] < p2[1] \/ (p[1] = p2[1] /\ p[2] <= p2[2])

LexMin(S) == CHOOSE p \in S : \A p2 \in S : LexLeq(p, p2)

(***************************************************************************)
(* verify_A16.py                                                           *)
(***************************************************************************)
\* for r in range(1, MOD, 2): checked += 1; w = find_witness_for_r(r, ...)
A16_MainLoop ==
    /\ prog = "A16" /\ pc = "main"
    /\ IF r < Shl(1, m0)
       THEN /\ checked' = checked + 1
            /\ ell' = 0
            /\ pc' = "ell"
       ELSE /\ pc' = "summary"
            /\ UNCHANGED <<checked, ell>>
    /\ v2args' = {}
    /\ UNCHANGED <<prog, verdict, exitStatus, m0, J, K, r, j, x, b, w, best, candidate,
                   survivors, witnesses_found, max_best_j, hardest>>
    /\ UNCHANGED <<twVars, gtVars>>

\* for ell in range(16): x = r + (ell << m0) ... return None
A16_EllLoop ==
    /\ prog = "A16" /\ pc = "ell"
    /\ IF ell < NumLifts
       THEN /\ x' = r + Shl(ell, m0)
            /\ j' = 0
            /\ pc' = "j"
            /\ w' = w
       ELSE /\ w' = None
            /\ pc' = "ret"
            /\ UNCHANGED <<x, j>>
    /\ v2args' = {}
    /\ UNCHANGED <<prog, verdict, exitStatus, m0, J, K, r, ell, b, best, candidate,
                   survivors, checked, witnesses_found, max_best_j, hardest>>
    /\ UNCHANGED <<twVars, gtVars>>

\* the threshold test made strict
A16_Spike_Strict(bb) == bb > K

\* line 66: if b >= K
A16_Spike(bb) == bb >= K

\* the advance left out
A16_Advance_Stuck(xx) == xx

\* the advance applied to the successor again (two steps per iteration)
A16_Advance_Double(xx) == odd_collatz_step(odd_collatz_step(xx)[1])[1]

\* the second call of line 68: x, _ = odd_collatz_step(x)
A16_Advance(xx) == odd_collatz_step(xx)[1]

\* for j in range(J): _, b = odd_collatz_step(x); if b >= K: return; x, _ = ...
A16_JLoop ==
    /\ prog = "A16" /\ pc = "j"
    /\ IF j < J
       THEN LET bb == odd_collatz_step(x)[2]
            IN  /\ b' = bb
                /\ IF A16_Spike(bb)
                   THEN /\ w' = <<ell, j, bb>>
                        /\ pc' = "ret"
                        /\ v2args' = {3 * x + 1}
                        /\ UNCHANGED <<x, j, ell>>
                   ELSE /\ x' = A16_Advance(x)
                        /\ j' = j + 1
                        /\ v2args' = {3 * x + 1}
                        /\ UNCHANGED <<w, pc, ell>>
       ELSE /\ ell' = ell + 1
            /\ pc' = "ell"
            /\ v2args' = {}
            /\ UNCHANGED <<x, j, b, w>>
    /\ UNCHANGED <<prog, verdict, exitStatus, m0, J, K, r, best, candidate,
                   survivors, checked, witnesses_found, max_best_j, hardest>>
    /\ UNCHANGED <<twVars, gtVars>>

\* if w is None: survivors.append(r) else: witnesses_found += 1
A16_Return ==
    /\ prog = "A16" /\ pc = "ret"
    /\ IF w = None
       THEN /\ survivors' = Append(survivors, r)
            /\ UNCHANGED witnesses_found
       ELSE /\ witnesses_found' = witnesses_found + 1
            /\ UNCHANGED survivors
    /\ r' = r + 2
    /\ pc' = "main"
    /\ v2args' = {}
    /\ UNCHANGED <<prog, verdict, exitStatus, m0, J, K, ell, j, x, b, w, best, candidate,
                   checked, max_best_j, hardest>>
    /\ UNCHANGED <<twVars, gtVars>>

\* return 0 if len(survivors) == 0 else 2, under raise SystemExit(main())
A16_ExitStatus(nsurv) == IF nsurv = 0 THEN ExitEmpty ELSE ExitNonEmpty

A16_Summary ==
    /\ prog = "A16" /\ pc = "summary"
    /\ verdict' = IF Len(survivors) = 0 THEN "EMPTY" ELSE "NONEMPTY"
    /\ exitStatus' = A16_ExitStatus(Len(survivors))
    /\ pc' = "done"
    /\ v2args' = {}
    /\ UNCHANGED prog
    /\ UNCHANGED <<wsVars, twVars, gtVars>>

(***************************************************************************)
(* deterministic_verifier_m16_J16_K4.py                                    *)
(***************************************************************************)
\* main() returns None on both paths and the script calls main() bare
Det_ExitStatus(foundSurvivor) == ExitNormal

\* for r in range(1, M, 2): checked += 1; best = None ... SUCCESS
Det_MainLoop ==
    /\ prog = "det" /\ pc = "main"
    /\ IF r < Shl(1, m0)
       THEN /\ checked' = checked + 1
            /\ best' = None
            /\ ell' = 0
            /\ pc' = "ell"
            /\ UNCHANGED <<verdict, exitStatus>>
       ELSE /\ verdict' = "SUCCESS"
            /\ exitStatus' = Det_ExitStatus(FALSE)
            /\ pc' = "done"
            /\ UNCHANGED <<checked, best, ell>>
    /\ v2args' = {}
    /\ UNCHANGED <<prog, m0, J, K, r, j, x, b, w, candidate,
                   survivors, witnesses_found, max_best_j, hardest>>
    /\ UNCHANGED <<twVars, gtVars>>

\* for ell in LIFTS: x = r + (ell << M_BITS)
Det_EllLoop ==
    /\ prog = "det" /\ pc = "ell"
    /\ IF ell < NumLifts
       THEN /\ x' = r + Shl(ell, m0)
            /\ j' = 0
            /\ pc' = "j"
       ELSE /\ pc' = "after"
            /\ UNCHANGED <<x, j>>
    /\ v2args' = {}
    /\ UNCHANGED <<prog, verdict, exitStatus, m0, J, K, r, ell, b, w, best, candidate,
                   survivors, checked, witnesses_found, max_best_j, hardest>>
    /\ UNCHANGED <<twVars, gtVars>>

\* for j in range(J): x_next, b = odd_collatz_step(x); if b >= K: ...; break; x = x_next
Det_JLoop ==
    /\ prog = "det" /\ pc = "j"
    /\ IF j < J
       THEN LET s == odd_collatz_step(x)
            IN  /\ b' = s[2]
                /\ v2args' = {3 * x + 1}
                /\ IF s[2] >= K
                   THEN /\ candidate' = <<j, ell, s[2]>>
                        /\ best' = IF best = None \/ j < best[1]
                                   THEN <<j, ell, s[2]>> ELSE best
                        /\ pc' = "early"
                        /\ UNCHANGED <<x, j>>
                   ELSE /\ x' = s[1]
                        /\ j' = j + 1
                        /\ UNCHANGED <<candidate, best, pc>>
       ELSE /\ pc' = "early"
            /\ v2args' = {}
            /\ UNCHANGED <<x, j, b, candidate, best>>
    /\ UNCHANGED <<prog, verdict, exitStatus, m0, J, K, r, ell, w,
                   survivors, checked, witnesses_found, max_best_j, hardest>>
    /\ UNCHANGED <<twVars, gtVars>>

\* if best is not None and best[0] == 0: break
Det_EarlyExit ==
    /\ prog = "det" /\ pc = "early"
    /\ IF best # None /\ best[1] = 0
       THEN /\ pc' = "after"
            /\ UNCHANGED ell
       ELSE /\ ell' = ell + 1
            /\ pc' = "ell"
    /\ v2args' = {}
    /\ UNCHANGED <<prog, verdict, exitStatus, m0, J, K, r, j, x, b, w, best, candidate,
                   survivors, checked, witnesses_found, max_best_j, hardest>>
    /\ UNCHANGED <<twVars, gtVars>>

\* if best is None: FAILURE, return; else update the hardest-case statistics
Det_AfterLifts ==
    /\ prog = "det" /\ pc = "after"
    /\ IF best = None
       THEN /\ verdict' = "FAILURE"
            /\ exitStatus' = Det_ExitStatus(TRUE)
            /\ pc' = "done"
            /\ UNCHANGED <<r, max_best_j, hardest>>
       ELSE /\ IF best[1] > max_best_j
               THEN /\ max_best_j' = best[1]
                    /\ hardest' = <<r, best[2], best[1], best[3]>>
               ELSE UNCHANGED <<max_best_j, hardest>>
            /\ r' = r + 2
            /\ pc' = "main"
            /\ UNCHANGED <<verdict, exitStatus>>
    /\ v2args' = {}
    /\ UNCHANGED <<prog, m0, J, K, ell, j, x, b, w, best, candidate,
                   survivors, checked, witnesses_found>>
    /\ UNCHANGED <<twVars, gtVars>>

(***************************************************************************)
(* u_cycle_verifier_m16.py: tower graph builder                            *)
(***************************************************************************)
KQ == S0 + ALPHA
MOD == Shl(1, KQ)

\* T_VALUES = list(range(2, S0 + ALPHA + 3))
T_VALUES == 2..(S0 + ALPHA + 2)

\* pow3[t] = pow(3, t, MOD)
pow3(t) == (3^t) % MOD

\* a & mask for a >= 0 and mask = 2^k - 1
AndMask(a, mask) == a % (mask + 1)

\* vid.get(key): the index at which key was appended, None (-1) if absent
vid_get(key) ==
    IF \E k \in 1..Len(vertices) : vertices[k] = key
    THEN (CHOOSE k \in 1..Len(vertices) : vertices[k] = key) - 1
    ELSE -1

\* lines 65-80, one (T, q) of the double loop per step
Tw_Enum ==
    /\ prog = "tower" /\ pc = "enum"
    /\ IF T \notin T_VALUES
       THEN /\ V' = Len(vertices)
            /\ out_adj' = [k \in 0..(Len(vertices) - 1) |-> <<>>]
            /\ rev_adj' = [k \in 0..(Len(vertices) - 1) |-> <<>>]
            /\ i' = 0
            /\ pc' = "edges"
            /\ v2args' = {}
            /\ UNCHANGED <<T, q, vertices>>
       ELSE IF q >= MOD
       THEN /\ T' = T + 1
            /\ q' = 1
            /\ v2args' = {}
            /\ UNCHANGED <<vertices, V, out_adj, rev_adj, i, pc>>
       ELSE LET a == pow3(T)
                u == (a * q) % MOD
            IN  /\ q' = q + 2
                /\ IF AndMask(u, 3) # 3
                   THEN /\ v2args' = {}
                        /\ UNCHANGED vertices
                   ELSE /\ v2args' = {AndMask(u - 1, MOD - 1)}
                        /\ IF v2(AndMask(u - 1, MOD - 1)) # 1
                           THEN UNCHANGED vertices
                           ELSE vertices' = Append(vertices, <<T, q>>)
                /\ UNCHANGED <<T, V, out_adj, rev_adj, i, pc>>
    /\ UNCHANGED <<prog, verdict, exitStatus>>
    /\ UNCHANGED <<S0, alive, outdeg, qd, removed, pops, enq>>
    /\ UNCHANGED <<wsVars, gtVars>>

\* lines 93-126 for one vertex (TT, qq): the arguments given to v2 and the
\* target index j, -1 when one of the continue branches is taken
EdgeOf(TT, qq) ==
    LET a == pow3(TT)
        u == (a * qq) % MOD
        tplus == v2((u + 1) % MOD)
        Tn == tplus - 1
        qp0 == Shr(u + 1, Tn + 1)
        qp == AndMask(qp0, MOD - 1)
        un == (pow3(Tn) * qp) % MOD
    IN  IF tplus <= 1 THEN [args |-> {(u + 1) % MOD}, target |-> -1]
        ELSE IF qp0 % 2 = 0 THEN [args |-> {(u + 1) % MOD}, target |-> -1]
        ELSE IF Tn \notin T_VALUES THEN [args |-> {(u + 1) % MOD}, target |-> -1]
        ELSE IF v2(AndMask(un - 1, MOD - 1)) # 1
             THEN [args |-> {(u + 1) % MOD, AndMask(un - 1, MOD - 1)}, target |-> -1]
        ELSE [args |-> {(u + 1) % MOD, AndMask(un - 1, MOD - 1)},
              target |-> vid_get(<<Tn, qp>>)]

\* lines 92-129, one vertex per step
Tw_Edge ==
    /\ prog = "tower" /\ pc = "edges"
    /\ IF i < V
       THEN LET e == EdgeOf(vertices[i + 1][1], vertices[i + 1][2])
            IN  /\ v2args' = e.args
                /\ IF e.target = -1
                   THEN UNCHANGED <<out_adj, rev_adj>>
                   ELSE /\ out_adj' = [out_adj EXCEPT ![i] = Append(@, e.target)]
                        /\ rev_adj' = [rev_adj EXCEPT ![e.target] = Append(@, i)]
                /\ i' = i + 1
                /\ UNCHANGED pc
       ELSE /\ pc' = "prune"
            /\ v2args' = {}
            /\ UNCHANGED <<out_adj, rev_adj, i>>
    /\ UNCHANGED <<prog, verdict, exitStatus>>
    /\ UNCHANGED <<S0, T, q, vertices, V, alive, outdeg, qd, removed, pops, enq>>
    /\ UNCHANGED <<wsVars, gtVars>>

(***************************************************************************)
(* u_cycle_verifier_m16.py: survivor pruning                                *)
(***************************************************************************)
\* the seed loop without its test: every vertex is queued
SeedQueue_All(od, n) == [k \in 1..n |-> k - 1]

\* the seed loop with its test inverted
SeedQueue_Inverted(od, n) ==
    LET NonZero(k) == od[k] # 0
    IN  SelectSeq([k \in 1..n |-> k - 1], NonZero)

\* for i in range(V): if outdeg[i] == 0: qd.append(i)
SeedQueue(od, n) ==
    LET Zero(k) == od[k] = 0
    IN  SelectSeq([k \in 1..n |-> k - 1], Zero)

\* lines 132-140
Tw_PruneInit ==
    /\ prog = "tower" /\ pc = "prune"
    /\ alive' = [k \in 0..(V - 1) |-> 1]
    /\ outdeg' = [k \in 0..(V - 1) |-> Len(out_adj[k])]
    /\ qd' = SeedQueue([k \in 0..(V - 1) |-> Len(out_adj[k])], V)
    /\ enq' = [k \in 0..(V - 1) |->
                 Cardinality({n \in 1..Len(qd') : qd'[n] = k})]
    /\ removed' = 0
    /\ pops' = 0
    /\ pc' = "while"
    /\ v2args' = {}
    /\ UNCHANGED <<prog, verdict, exitStatus>>
    /\ UNCHANGED <<S0, T, q, vertices, V, out_adj, rev_adj, i>>
    /\ UNCHANGED <<wsVars, gtVars>>

\* for p in rev_adj[x]: if alive[p] == 0: continue; outdeg[p] -= 1;
\*                      if outdeg[p] == 0: qd.append(p)
RECURSIVE Propagate(_, _, _, _, _)
Propagate(preds, al, od, queue, en) ==
    IF preds = <<>> THEN [outdeg |-> od, qd |-> queue, enq |-> en]
    ELSE LET p == Head(preds)
             od2 == [od EXCEPT ![p] = @ - 1]
         IN  IF al[p] = 0 THEN Propagate(Tail(preds), al, od, queue, en)
             ELSE IF od2[p] = 0
                  THEN Propagate(Tail(preds), al, od2, Append(queue, p),
                                 [en EXCEPT ![p] = @ + 1])
                  ELSE Propagate(Tail(preds), al, od2, queue, en)

\* lines 141-152, one iteration of while qd
Tw_PruneStep ==
    /\ prog = "tower" /\ pc = "while"
    /\ qd # <<>>
    /\ LET xx == Head(qd)
       IN  /\ pops' = pops + 1
           /\ IF alive[xx] = 0
              THEN /\ qd' = Tail(qd)
                   /\ UNCHANGED <<alive, removed, outdeg, enq>>
              ELSE LET al == [alive EXCEPT ![xx] = 0]
                       res == Propagate(rev_adj[xx], al, outdeg, Tail(qd), enq)
                   IN  /\ alive' = al
                       /\ removed' = removed + 1
                       /\ outdeg' = res.outdeg
                       /\ qd' = res.qd
                       /\ enq' = res.enq
    /\ v2args' = {}
    /\ UNCHANGED <<prog, pc, verdict, exitStatus>>
    /\ UNCHANGED <<S0, T, q, vertices, V, out_adj, rev_adj, i>>
    /\ UNCHANGED <<wsVars, gtVars>>

\* main() -> None returns on both paths and the script calls main() bare
Tw_ExitStatus(nsurv) == ExitNormal

\* lines 154-174
Tw_Report ==
    /\ prog = "tower" /\ pc = "while"
    /\ qd = <<>>
    /\ survivors' = V - removed
    /\ verdict' = IF V - removed = 0 THEN "EMPTY" ELSE "NONEMPTY"
    /\ exitStatus' = Tw_ExitStatus(V - removed)
    /\ pc' = "done"
    /\ v2args' = {}
    /\ UNCHANGED prog
    /\ UNCHANGED <<m0, J, K, r, ell, j, x, b, w, best, candidate,
                   checked, witnesses_found, max_best_j, hardest>>
    /\ UNCHANGED <<twVars, gtVars>>

(***************************************************************************)
(* verify_gate_cycle_m16.py: gate cycle detector                           *)
(***************************************************************************)
\* V_m = { (r, ell) : r odd mod 2^m, ell in {0..15} }
V_m(m) == {s \in (0..(2^m - 1)) \X (0..(NumLifts - 1)) : s[1] % 2 = 1}

\* I_m = { (2^m - 1, ell) with ell odd }
I_m(m) == {s \in V_m(m) : s[1] = 2^m - 1 /\ s[2] % 2 = 1}

\* F_m(r, ell): x = r + ell*2^m, x_next = U(x), reduced mod 2^(m+4)
step_F(rr, ll, m) ==
    LET xx == rr + Shl(ll, m)
        x_next == odd_collatz_step(xx)[1]
    IN  <<AndMask(x_next, Shl(1, m) - 1), AndMask(Shr(x_next, m), NumLifts - 1)>>

\* the argument step_F gives to v2 at state s (none on a synthetic graph)
StepArgs(s) == IF gm > 0 THEN {3 * (s[1] + Shl(s[2], gm)) + 1} ELSE {}

\* the gate states in increasing order of lift
RECURSIVE GateSeq(_)
GateSeq(S) ==
    IF S = {} THEN <<>>
    ELSE LET s == CHOOSE a \in S : \A c \in S : a[2] <= c[2]
         IN  <<s>> \o GateSeq(S \ {s})

\* the gate test left out of the cycle walk
HitsGate_Never(s) == FALSE

\* the cycle walk fails on a state of the gate set
HitsGate(s) == s \in gGate

\* for each gate state: start Floyd's tortoise and hare; PASS after the last one
G_Next ==
    /\ prog = "gate" /\ pc = "gate"
    /\ IF gTodo # <<>>
       THEN LET g == Head(gTodo)
            IN  /\ g0' = g
                /\ gTodo' = Tail(gTodo)
                /\ tortoise' = gF[g]
                /\ hare' = gF[gF[g]]
                /\ v2args' = StepArgs(g) \cup StepArgs(gF[g])
                /\ pc' = "floyd"
                /\ UNCHANGED verdict
       ELSE /\ verdict' = "PASS"
            /\ pc' = "done"
            /\ v2args' = {}
            /\ UNCHANGED <<g0, gTodo, tortoise, hare>>
    /\ UNCHANGED <<prog, exitStatus, gm, gF, gGate, cyc>>
    /\ UNCHANGED <<wsVars, twVars>>

\* tortoise moves one step and hare two until they meet on the eventual cycle
G_Floyd ==
    /\ prog = "gate" /\ pc = "floyd"
    /\ IF tortoise # hare
       THEN /\ tortoise' = gF[tortoise]
            /\ hare' = gF[gF[hare]]
            /\ v2args' = StepArgs(tortoise) \cup StepArgs(hare) \cup StepArgs(gF[hare])
            /\ UNCHANGED <<cyc, pc>>
       ELSE /\ cyc' = tortoise
            /\ pc' = "walk"
            /\ v2args' = {}
            /\ UNCHANGED <<tortoise, hare>>
    /\ UNCHANGED <<prog, verdict, exitStatus, gm, gF, gGate, gTodo, g0>>
    /\ UNCHANGED <<wsVars, twVars>>

\* walk the eventual cycle once from the meeting point; FAIL on a gate state
G_Walk ==
    /\ prog = "gate" /\ pc = "walk"
    /\ IF HitsGate(cyc)
       THEN /\ verdict' = "FAIL"
            /\ pc' = "done"
            /\ v2args' = {}
            /\ UNCHANGED cyc
       ELSE /\ v2args' = StepArgs(cyc)
            /\ IF gF[cyc] = tortoise
               THEN /\ pc' = "gate"
                    /\ UNCHANGED cyc
               ELSE /\ cyc' = gF[cyc]
                    /\ UNCHANGED pc
            /\ UNCHANGED verdict
    /\ UNCHANGED <<prog, exitStatus, gm, gF, gGate, gTodo, g0, tortoise, hare>>
    /\ UNCHANGED <<wsVars, twVars>>

(***************************************************************************)
(* Initial states.                                                         *)
(***************************************************************************)
WsIdle ==
    /\ m0 = 0 /\ J = 0 /\ K = 0 /\ r = 0 /\ ell = 0 /\ j = 0 /\ x = 0 /\ b = 0
    /\ w = None /\ best = None /\ candidate = None
    /\ survivors = <<>> /\ checked = 0 /\ witnesses_found = 0
    /\ max_best_j = -1 /\ hardest = None

TwIdle ==
    /\ S0 = 0 /\ T = 0 /\ q = 0 /\ vertices = <<>> /\ V = 0
    /\ out_adj = <<>> /\ rev_adj = <<>> /\ i = 0
    /\ alive = <<>> /\ outdeg = <<>> /\ qd = <<>> /\ removed = 0
    /\ pops = 0 /\ enq = <<>>

GtIdle ==
    /\ gm = 0 /\ gF = <<>> /\ gGate = {} /\ gTodo = <<>>
    /\ g0 = None /\ tortoise = None /\ hare = None /\ cyc = None

\* verify_A16.main lines 82-92, deterministic verifier lines 28-35
InitWS ==
    /\ prog \in {"A16", "det"}
    /\ pc = "main" /\ verdict = "" /\ exitStatus = NotExited /\ v2args = {}
    /\ m0 \in 1..MaxM /\ J \in 0..MaxJ /\ K \in 1..MaxK
    /\ r = 1 /\ ell = 0 /\ j = 0 /\ x = 0 /\ b = 0
    /\ w = None /\ best = None /\ candidate = None
    /\ survivors = <<>> /\ checked = 0 /\ witnesses_found = 0
    /\ max_best_j = -1 /\ hardest = None
    /\ TwIdle /\ GtIdle

\* u_cycle_verifier_m16.main lines 48-65
InitTower ==
    /\ prog = "tower"
    /\ pc = "enum" /\ verdict = "" /\ exitStatus = NotExited /\ v2args = {}
    /\ S0 \in 1..MaxS0
    /\ T = 2 /\ q = 1 /\ vertices = <<>> /\ V = 0
    /\ out_adj = <<>> /\ rev_adj = <<>> /\ i = 0
    /\ alive = <<>> /\ outdeg = <<>> /\ qd = <<>> /\ removed = 0
    /\ pops = 0 /\ enq = <<>>
    /\ WsIdle /\ GtIdle

\* the detector over F_m on V_m with gate I_m
InitGateFm ==
    /\ prog = "gate"
    /\ pc = "gate" /\ verdict = "" /\ exitStatus = NotExited /\ v2args = {}
    /\ gm \in 1..MaxGm
    /\ gF = [s \in V_m(gm) |-> step_F(s[1], s[2], gm)]
    /\ gGate = I_m(gm)
    /\ gTodo = GateSeq(I_m(gm))
    /\ g0 = None /\ tortoise = None /\ hare = None /\ cyc = None
    /\ WsIdle /\ TwIdle

Init == InitWS \/ InitTower \/ InitGateFm

Next ==
    \/ A16_MainLoop \/ A16_EllLoop \/ A16_JLoop \/ A16_Return \/ A16_Summary
    \/ Det_MainLoop \/ Det_EllLoop \/ Det_JLoop \/ Det_EarlyExit \/ Det_AfterLifts
    \/ Tw_Enum \/ Tw_Edge \/ Tw_PruneInit \/ Tw_PruneStep \/ Tw_Report
    \/ G_Next \/ G_Floyd \/ G_Walk

Spec == Init /\ [][Next]_vars

(***************************************************************************)
(* The pruning engine on every functional graph of at most MaxV vertices.  *)
(***************************************************************************)
\* rev_adj as lines 128-129 build it: rev_adj[j].append(i) for i ascending
RECURSIVE RevAdj(_, _, _, _)
RevAdj(out, rev, k, n) ==
    IF k >= n THEN rev
    ELSE RevAdj(out,
                IF out[k] = <<>> THEN rev
                ELSE [rev EXCEPT ![out[k][1]] = Append(@, k)],
                k + 1, n)

InitPrune ==
    /\ prog = "tower"
    /\ pc = "prune" /\ verdict = "" /\ exitStatus = NotExited /\ v2args = {}
    /\ S0 = 0 /\ T = 0 /\ q = 0
    /\ V \in 1..MaxV
    /\ vertices = [k \in 1..V |-> <<0, k - 1>>]
    /\ out_adj \in [0..(V - 1) -> {<<>>} \cup {<<k>> : k \in 0..(V - 1)}]
    /\ rev_adj = RevAdj(out_adj, [k \in 0..(V - 1) |-> <<>>], 0, V)
    /\ i = V
    /\ alive = <<>> /\ outdeg = <<>> /\ qd = <<>> /\ removed = 0
    /\ pops = 0 /\ enq = <<>>
    /\ WsIdle /\ GtIdle

NextPrune == Tw_PruneInit \/ Tw_PruneStep \/ Tw_Report

SpecPrune == InitPrune /\ [][NextPrune]_vars

\* the pruning loop is sequential code: it keeps running while it can
FairSpecPrune == SpecPrune /\ WF_vars(NextPrune)

(***************************************************************************)
(* The cycle detector on every successor function over at most MaxSynth    *)
(* states with every non-empty gate set, and on F_m.                       *)
(***************************************************************************)
InitGateSynth ==
    /\ prog = "gate"
    /\ pc = "gate" /\ verdict = "" /\ exitStatus = NotExited /\ v2args = {}
    /\ gm = 0
    /\ \E n \in 2..MaxSynth :
         LET St == {0} \X (0..(n - 1))
         IN  /\ gF \in [St -> St]
             /\ gGate \in (SUBSET St) \ {{}}
    /\ gTodo = GateSeq(gGate)
    /\ g0 = None /\ tortoise = None /\ hare = None /\ cyc = None
    /\ WsIdle /\ TwIdle

NextGate == G_Next \/ G_Floyd \/ G_Walk

SpecGate == (InitGateSynth \/ InitGateFm) /\ [][NextGate]_vars

(***************************************************************************)
(* Properties of the witness search.                                       *)
(***************************************************************************)
InSearch == prog \in {"A16", "det"}

\* C1: find_witness_for_r returns (ell, j, b) where (ell, j) is the
\* lexicographic minimum of the pairs in 0..15 x 0..J-1 whose valuation
\* v2(3*U^j(r + ell*2^m0) + 1) is at least K and b is that valuation, and it
\* returns None exactly when there is no such pair.
C1_LexMinWitness ==
    (prog = "A16" /\ pc = "ret") =>
        /\ (w = None) <=> (ValidPairs(r) = {})
        /\ w # None =>
             /\ <<w[1], w[2]>> \in ValidPairs(r)
             /\ <<w[1], w[2]>> = LexMin(ValidPairs(r))
             /\ w[3] = SpikeAt(r, w[1], w[2])

\* a witness on a later lift and a later step, with several valid pairs
C1_Witness ==
    /\ prog = "A16" /\ pc = "ret" /\ w # None
    /\ w[1] >= 1 /\ w[2] >= 1
    /\ Cardinality(ValidPairs(r)) >= 2

\* C5: for every odd positive x reached by a search, odd_collatz_step(x)
\* returns (x_next, b) with b >= 1, x_next odd and x_next * 2^b = 3x + 1.
C5_StepExact ==
    (InSearch /\ pc = "j" /\ x > 0 /\ x % 2 = 1) =>
        LET s == odd_collatz_step(x)
        IN  /\ s[2] >= 1
            /\ s[1] % 2 = 1
            /\ s[1] * 2^(s[2]) = 3 * x + 1

\* the step is applied to an odd x whose 3x+1 carries several factors of 2
C5_Witness ==
    /\ InSearch /\ pc = "j" /\ j >= 1 /\ j < J
    /\ x > 1 /\ x % 2 = 1
    /\ odd_collatz_step(x)[2] >= 3
    /\ odd_collatz_step(x)[1] > 1

\* C6: with m = 4, J = 4, K = 2 every odd residue mod 16 gets a witness, on
\* a lift in 0..3, so the survivor list is empty and the verdict is EMPTY.
ScenarioA == prog = "A16" /\ m0 = 4 /\ J = 4 /\ K = 2

C6_ScenarioA ==
    ScenarioA =>
        /\ pc = "ret" => (w # None /\ w[1] <= 3)
        /\ survivors = <<>>
        /\ pc = "done" => (verdict = "EMPTY" /\ witnesses_found = 8 /\ checked = 8)

C6_Witness == ScenarioA /\ pc = "done" /\ checked = 8

\* the first step index with a spike on lift ll of residue rr, and its size
HasSpike(rr, ll) == \E jj \in 0..(J - 1) : SpikeAt(rr, ll, jj) >= K

FirstSpike(rr, ll) ==
    LET jmin == CHOOSE jj \in 0..(J - 1) :
                    /\ SpikeAt(rr, ll, jj) >= K
                    /\ \A j2 \in 0..(jj - 1) : SpikeAt(rr, ll, j2) < K
    IN  <<jmin, SpikeAt(rr, ll, jmin)>>

Survivor(rr) == \A ll \in 0..(NumLifts - 1) : ~HasSpike(rr, ll)

\* C7: in both variants the x inspected at index j is U^j(r + ell*2^m0), the
\* b compared with K is v2(3x+1) of that x, each variant attributes the first
\* spike of a lift to the same (j, b), and both agree on whether r survives.
C7_SingleStep ==
    /\ (InSearch /\ pc = "j") => x = Uiter(r + ell * 2^m0, j)
    /\ (InSearch /\ pc = "j" /\ j >= 1) =>
           (b = SpikeAt(r, ell, j - 1) /\ b < K)
    /\ (prog = "A16" /\ pc = "ret" /\ w # None) =>
           (HasSpike(r, w[1]) /\ <<w[2], w[3]>> = FirstSpike(r, w[1]))
    /\ (prog = "A16" /\ pc = "ret") => ((w = None) <=> Survivor(r))
    /\ (prog = "det" /\ pc = "early" /\ j < J) =>
           /\ candidate = <<j, ell, b>>
           /\ HasSpike(r, ell)
           /\ <<j, b>> = FirstSpike(r, ell)
    /\ (prog = "det" /\ pc = "early" /\ j >= J) => ~HasSpike(r, ell)
    /\ (prog = "det" /\ pc = "after") => ((best = None) <=> Survivor(r))

\* a first spike found after at least two advances of x
C7_Witness ==
    /\ InSearch /\ j >= 2 /\ b >= K
    /\ \/ prog = "A16" /\ pc = "ret" /\ w = <<ell, j, b>>
       \/ prog = "det" /\ pc = "early" /\ candidate = <<j, ell, b>>

(***************************************************************************)
(* Properties of the entry points and of the valuation primitive.          *)
(***************************************************************************)
\* the status an entry point ends with when its certificate holds
SuccessStatus ==
    IF prog = "A16" THEN A16_ExitStatus(0)
    ELSE IF prog = "det" THEN Det_ExitStatus(FALSE)
    ELSE Tw_ExitStatus(0)

CertificateFailed == verdict \in {"NONEMPTY", "FAILURE"}
CertificateHolds == verdict \in {"EMPTY", "SUCCESS"}

\* C3: every verifier entry point (verify_A16, the deterministic verifier,
\* the tower-graph verifier) ends with one exit status when no survivor was
\* found and with a different exit status when a survivor was found.
C3_DistinctExitStatus ==
    (prog \in {"A16", "det", "tower"} /\ pc = "done") =>
        /\ CertificateHolds => exitStatus = SuccessStatus
        /\ CertificateFailed => exitStatus # SuccessStatus

\* C4: no step of any verifier run passes 0 to v2.
C4_V2NeverZero == 0 \notin v2args

(***************************************************************************)
(* Properties of the tower graph builder.                                  *)
(***************************************************************************)
\* (TT, qq) is an admissible vertex: qq odd, TT in the window, and
\* v2(3^TT * qq - 1) = 1 at precision 2^KQ
Admissible(TT, qq) ==
    /\ qq % 2 = 1
    /\ TT \in T_VALUES
    /\ LET un == ((3^TT) * qq) % MOD
       IN  un > 1 /\ Val2(un - 1) = 1

\* the target the recursion assigns to (TT, qq), None when there is none
ClaimedTarget(TT, qq) ==
    LET u == ((3^TT) * qq) % MOD
        Tp == Val2(u + 1) - 1
        qp == (u + 1) \div (2^(Tp + 1))
    IN  IF /\ Tp >= 2
           /\ qp % 2 = 1
           /\ Tp \in T_VALUES
           /\ Admissible(Tp, qp % MOD)
        THEN <<Tp, qp % MOD>>
        ELSE None

InSeq(e, sq) == \E n \in 1..Len(sq) : sq[n] = e

\* C9: every admissible vertex (T, q) has at most one outgoing edge; it has
\* the edge to (T', q') exactly when T' = v2(u+1) - 1 >= 2 for
\* u = 3^T*q mod 2^KQ, q' = (u+1)/2^(T'+1) is odd, T' is in the window and
\* (T', q' mod 2^KQ) is admissible; and i is in rev_adj[j] exactly when j is
\* in out_adj[i].
C9_EdgeRule ==
    (prog = "tower" /\ pc = "prune" /\ S0 > 0) =>
        /\ \A k \in 0..(V - 1) :
              LET tgt == ClaimedTarget(vertices[k + 1][1], vertices[k + 1][2])
              IN  /\ Len(out_adj[k]) <= 1
                  /\ Admissible(vertices[k + 1][1], vertices[k + 1][2])
                  /\ tgt = None => out_adj[k] = <<>>
                  /\ tgt # None => out_adj[k] = <<vid_get(tgt)>>
        /\ \A k \in 0..(V - 1) : \A n \in 0..(V - 1) :
              InSeq(k, rev_adj[n]) <=> InSeq(n, out_adj[k])

(***************************************************************************)
(* Properties of the survivor pruning.                                     *)
(***************************************************************************)
\* the vertex k edges ahead of v, -1 past a vertex without an edge
RECURSIVE Ahead(_, _)
Ahead(v, k) ==
    IF k = 0 THEN v
    ELSE IF v = -1 \/ out_adj[v] = <<>> THEN -1
    ELSE Ahead(out_adj[v][1], k - 1)

OnCycle(v) == \E k \in 1..V : Ahead(v, k) = v

FeedsCycle(v) == \E k \in 0..V : Ahead(v, k) # -1 /\ OnCycle(Ahead(v, k))

AliveSet == {v \in 0..(V - 1) : alive[v] = 1}

\* every member has an edge to a member
ClosedSet(S) == \A v \in S : out_adj[v] # <<>> /\ out_adj[v][1] \in S

\* C2: when the worklist loop has ended, a vertex is alive exactly when it
\* lies on a cycle or has a forward path into one, the alive set is the
\* greatest set closed under "has an edge to a member", and the reported
\* survivor count V - removed is the number of alive vertices.
C2_GreatestFixedPoint ==
    (prog = "tower" /\ pc = "done") =>
        /\ \A v \in 0..(V - 1) : (alive[v] = 1) <=> FeedsCycle(v)
        /\ ClosedSet(AliveSet)
        /\ \A S \in SUBSET (0..(V - 1)) : ClosedSet(S) => S \subseteq AliveSet
        /\ survivors = V - removed
        /\ survivors = Cardinality(AliveSet)

\* a cycle of two vertices, a vertex feeding it, and a dead vertex
C2_Witness ==
    /\ prog = "tower" /\ pc = "done"
    /\ \E v \in 0..(V - 1) : alive[v] = 1 /\ ~OnCycle(v)
    /\ \E v \in 0..(V - 1) : alive[v] = 1 /\ OnCycle(v) /\ out_adj[v] # <<v>>
    /\ \E v \in 0..(V - 1) : alive[v] = 0

C10_QueueDiscipline ==
    (prog = "tower" /\ pc \in {"while", "done"}) =>
        /\ \A v \in 0..(V - 1) : enq[v] <= 1
        /\ pops <= V
        /\ \A n \in 1..Len(qd) : alive[qd[n]] = 1

\* C10: the worklist loop terminates, no vertex is appended to the queue
\* more than once, at most V pops occur, and every queued vertex is still
\* alive when it is popped (the skip branch is never taken).
C10_TerminatesOncePerVertex ==
    /\ []C10_QueueDiscipline
    /\ <>(pc = "done")

\* a chain of three: two vertices are appended by a decrement, all are popped
C10_Witness ==
    /\ prog = "tower" /\ pc = "done"
    /\ V >= 3 /\ pops = V
    /\ Cardinality({v \in 0..(V - 1) : out_adj[v] # <<>> /\ enq[v] = 1}) >= 2

(***************************************************************************)
(* Properties of the gate cycle detector.                                  *)
(***************************************************************************)
RECURSIVE OrbitFrom(_, _)
OrbitFrom(s, seen) ==
    IF s \in seen THEN seen ELSE OrbitFrom(gF[s], seen \cup {s})

Orbit(s) == OrbitFrom(s, {})

\* the states of the cycle the trajectory of g ends in
EventualCycle(g) == {s \in Orbit(g) : s \in Orbit(gF[s])}

GateOnCycle == \E g \in gGate : EventualCycle(g) \cap gGate # {}

\* C8: the detector fails when the eventual cycle reached from some gate
\* state contains a gate state, and passes, after processing every gate
\* state, when there is no such intersection.
C8_GateCycleVerdict ==
    /\ (prog = "gate" /\ pc = "walk") => cyc \in EventualCycle(g0)
    /\ (prog = "gate" /\ pc = "done") =>
          /\ verdict \in {"PASS", "FAIL"}
          /\ (verdict = "FAIL") <=> GateOnCycle
          /\ verdict = "PASS" => gTodo = <<>>

\* the detector fails on a cycle through another gate state than the start
C8_Witness ==
    /\ prog = "gate" /\ pc = "done" /\ verdict = "FAIL"
    /\ g0 \notin EventualCycle(g0)
    /\ cyc \in gGate

====
